---------------------------- MODULE Spec2Model ----------------------------
(***************************************************************************)
(* rainmaker.py: the pipeline main() -> timescales() -> grav_accel() ->    *)
(* logTemp_fit() / logPressure_fit() -> fit_polynomial() ->                *)
(* extrapolate_radius(), run on one cluster's observation table.           *)
(*                                                                         *)
(* Numbers.  The program works in binary64 with divide and invalid         *)
(* warnings switched off (np.seterr, line 46), so NaN, +-inf and the sign  *)
(* of zero are ordinary values of the run.  Two kinds of number occur:     *)
(*                                                                         *)
(*  - values on the logarithmic axis (ln r, ln T, ln P, the polynomial     *)
(*    coefficients, the fitted ln curves, dlnP/dlnr).  They are added and  *)
(*    multiplied.  The model keeps them as exact integers in the unit      *)
(*    0.01 dex = ln(10)/100, the spacing of the fine grid, plus NaN and    *)
(*    +-inf: a record [k, v].                                              *)
(*                                                                         *)
(*  - values on the linear axis (radii, temperatures, pressures, g, the    *)
(*    timescales).  They are multiplied, divided, raised to powers and     *)
(*    square-rooted.  The model keeps them as binary64 keeps them, a sign  *)
(*    and an exponent, with the mantissa rounded to the exponent grid:     *)
(*    [k, s, e] is s * 10^(e/100), or a signed zero, a signed infinity,    *)
(*    or NaN.                                                              *)
(*                                                                         *)
(* np.exp takes the first kind to the second, np.log goes back.  Every     *)
(* result on the linear axis that leaves the binary64 range becomes an     *)
(* infinity (above MaxExp) or a zero (below MinExp) of its sign.           *)
(***************************************************************************)
EXTENDS Integers, Sequences, FiniteSets, TLC

(***************************************************************************)
(* Values on the logarithmic axis.                                         *)
(***************************************************************************)
Ln(n) == [k |-> "fin", v |-> n]
LnNaN == [k |-> "nan", v |-> 0]
LnInf(sgn) == [k |-> "inf", v |-> sgn]

Sign(n) == IF n > 0 THEN 1 ELSE IF n < 0 THEN -1 ELSE 0
Abs(n) == IF n < 0 THEN -n ELSE n

\* x + y in binary64: inf + -inf is NaN.
LnAdd(x, y) ==
    IF x.k = "nan" \/ y.k = "nan" THEN LnNaN
    ELSE IF x.k = "inf" /\ y.k = "inf"
         THEN IF x.v = y.v THEN x ELSE LnNaN
    ELSE IF x.k = "inf" THEN x
    ELSE IF y.k = "inf" THEN y
    ELSE Ln(x.v + y.v)

\* x * y in binary64: 0 * inf is NaN.
LnMul(x, y) ==
    IF x.k = "nan" \/ y.k = "nan" THEN LnNaN
    ELSE IF x.k = "inf" \/ y.k = "inf"
         THEN IF x.v = 0 \/ y.v = 0 THEN LnNaN
              ELSE LnInf(Sign(x.v) * Sign(y.v))
    ELSE Ln(x.v * y.v)

\* x ** float(n) for n = 0, 1, 2: pow(x, 0.0) is 1.0 for every x, NaN too.
LnPow(x, n) ==
    IF n = 0 THEN Ln(1)
    ELSE IF n = 1 THEN x
    ELSE LnMul(x, x)

(***************************************************************************)
(* Values on the linear axis.                                              *)
(***************************************************************************)
\* The binary64 range in units of 0.01 dex: a result above 1.797e308
\* (ln = 709.78) is an infinity, one below 2^-1075 (ln = -745.13) a zero.
MaxExp == 30825
MinExp == -32360
InRange(ex) == MinExp <= ex /\ ex <= MaxExp

QZero(sgn) == [k |-> "zero", s |-> sgn, e |-> 0]
QInf(sgn) == [k |-> "inf", s |-> sgn, e |-> 0]
QNaN == [k |-> "nan", s |-> 1, e |-> 0]

\* sgn * 10^(ex/100) as binary64 holds it.
Q(sgn, ex) ==
    IF ex > MaxExp THEN QInf(sgn)
    ELSE IF ex < MinExp THEN QZero(sgn)
    ELSE [k |-> "fin", s |-> sgn, e |-> ex]

IsNaN(x) == x.k = "nan"
IsZero(x) == x.k = "zero"
\* x > 0 and x < 0 as binary64 compares: false of either zero and of NaN.
IsPos(x) == x.k \in {"fin", "inf"} /\ x.s = 1
IsNeg(x) == x.k \in {"fin", "inf"} /\ x.s = -1
IsFinite(x) == x.k \in {"fin", "zero"}

QNeg(x) == IF x.k = "nan" THEN x ELSE [x EXCEPT !.s = -x.s]

QMul(x, y) ==
    IF x.k = "nan" \/ y.k = "nan" THEN QNaN
    ELSE IF (x.k = "zero" /\ y.k = "inf") \/ (x.k = "inf" /\ y.k = "zero")
         THEN QNaN
    ELSE IF x.k = "zero" \/ y.k = "zero" THEN QZero(x.s * y.s)
    ELSE IF x.k = "inf" \/ y.k = "inf" THEN QInf(x.s * y.s)
    ELSE Q(x.s * y.s, x.e + y.e)

\* x / y with divide='ignore', invalid='ignore': x/0 is a signed infinity,
\* 0/0 and inf/inf are NaN.
QDiv(x, y) ==
    IF x.k = "nan" \/ y.k = "nan" THEN QNaN
    ELSE IF (x.k = "zero" /\ y.k = "zero") \/ (x.k = "inf" /\ y.k = "inf")
         THEN QNaN
    ELSE IF x.k = "zero" \/ y.k = "inf" THEN QZero(x.s * y.s)
    ELSE IF x.k = "inf" \/ y.k = "zero" THEN QInf(x.s * y.s)
    ELSE Q(x.s * y.s, x.e - y.e)

\* np.sqrt: NaN of a negative value and of -inf, -0.0 of -0.0.
QSqrt(x) ==
    IF x.k = "nan" THEN QNaN
    ELSE IF x.k = "zero" THEN x
    ELSE IF x.s = -1 THEN QNaN
    ELSE IF x.k = "inf" THEN x
    ELSE Q(1, x.e \div 2)

\* x ** (num/den) for a base that is never negative here (a fitted
\* temperature): 0 ** negative is +inf, inf ** negative is 0.
QPow(x, num, den) ==
    IF x.k = "nan" THEN QNaN
    ELSE IF x.s = -1 /\ x.k # "zero" THEN QNaN
    ELSE IF x.k = "zero" THEN IF num < 0 THEN QInf(1) ELSE QZero(1)
    ELSE IF x.k = "inf" THEN IF num < 0 THEN QZero(1) ELSE QInf(1)
    ELSE Q(1, (x.e * num) \div den)

\* round(100*log10(1 + 10^(-d/100))) by tenths of a decade of d.
GaussLog ==
    <<30, 25, 21, 18, 15, 12, 10, 8, 6, 5, 4, 3, 3, 2, 2, 1, 1, 1, 1, 1>>

\* x + y for operands that are never negative here (the three terms of the
\* cooling function, the two squares under the error's root).
QAdd(x, y) ==
    IF x.k = "nan" \/ y.k = "nan" THEN QNaN
    ELSE IF x.k = "inf" \/ y.k = "inf" THEN QInf(1)
    ELSE IF x.k = "zero" THEN y
    ELSE IF y.k = "zero" THEN x
    ELSE LET hi == IF x.e >= y.e THEN x.e ELSE y.e
             d == Abs(x.e - y.e)
         IN Q(1, hi + (IF d < 10 * Len(GaussLog) THEN GaussLog[(d \div 10) + 1]
                       ELSE 0))

\* round(100*log10(n)) for n = 1..99.
Log10Table ==
    <<0, 30, 48, 60, 70, 78, 85, 90, 95, 100, 104, 108, 111, 115, 118, 120,
      123, 126, 128, 130, 132, 134, 136, 138, 140, 141, 143, 145, 146, 148,
      149, 151, 152, 153, 154, 156, 157, 158, 159, 160, 161, 162, 163, 164,
      165, 166, 167, 168, 169, 170, 171, 172, 172, 173, 174, 175, 176, 176,
      177, 178, 179, 179, 180, 181, 181, 182, 183, 183, 184, 185, 185, 186,
      186, 187, 188, 188, 189, 189, 190, 190, 191, 191, 192, 192, 193, 193,
      194, 194, 195, 195, 196, 196, 197, 197, 198, 198, 199, 199, 200>>

\* The exponent of the positive integer n, to two significant digits.
RECURSIVE ILog(_)
ILog(n) == IF n < 100 THEN Log10Table[n] ELSE 100 + ILog(n \div 10)

\* The integer n as a value of the linear axis.
QInt(n) == IF n = 0 THEN QZero(1) ELSE Q(Sign(n), ILog(Abs(n)))

\* A value of the logarithmic axis used as a factor on the linear axis (the
\* dimensionless slope dlnP/dlnr in g).
QOfLn(x) ==
    IF x.k = "nan" THEN QNaN
    ELSE IF x.k = "inf" THEN QInf(x.v)
    ELSE QInt(x.v)

\* np.exp.
QExp(x) ==
    IF x.k = "nan" THEN QNaN
    ELSE IF x.k = "inf" THEN IF x.v = 1 THEN QInf(1) ELSE QZero(1)
    ELSE Q(1, x.v)

\* np.log with divide='ignore', invalid='ignore': -inf of either zero, NaN of
\* a negative value.
QLog(x) ==
    IF x.k = "nan" THEN LnNaN
    ELSE IF x.k = "zero" THEN LnInf(-1)
    ELSE IF x.s = -1 THEN LnNaN
    ELSE IF x.k = "inf" THEN LnInf(1)
    ELSE Ln(x.e)


(***************************************************************************)
(* The observation table.  parse_data_table() hands timescales() the rows  *)
(* of one cluster: at least one row, since filter_by_cluster() returns     *)
(* only for a name that is in the table.  Rin and Rout are integer         *)
(* multiples of 0.001 Mpc of equal parity, so that the midpoint is exact   *)
(* as it is in binary64; nothing in the program checks their sign.         *)
(***************************************************************************)
MaxN == 4

\* 0.001 as an exponent: the table's radius quantum in Mpc.
RadiusQuantum == -300

\* <<Rin of the first bin, bin width>> of the tables drawn: midpoints
\* 10, 12, 14, .. kpc; 0, 2, 4, ..; -2, 0, 2, ..; and 1000, 1002, .. kpc
\* (ln r = 0 to the precision kept).
RadiusGrids == {<<9, 2>>, <<-1, 2>>, <<-3, 2>>, <<999, 2>>}

\* The coefficient vectors poly.polyfit can return here, lowest power first,
\* in the units of the logarithmic axis.  Degree 2 (temperature, keV):
\* isothermal 3 keV; a parabola in ln r opening upwards, and one opening
\* downwards, about r = 12 kpc.
TempCoeffs ==
    { <<48, 0, 0>>, <<36912, 384, 1>>, <<-36816, -384, -1>> }

\* Degree 3 (pressure, dyne cm^-2): the power laws r^-1, r^+1 and r^0; a
\* parabola opening upwards and one opening downwards about r = 10 kpc; a
\* falling cubic with its inflection at r = 14 kpc.
PressureCoeffs ==
    { <<-1300, -1, 0, 0>>, <<-700, 1, 0, 0>>, <<-1000, 0, 0, 0>>,
      <<39000, 400, 1, 0>>, <<-41000, -400, -1, 0>>,
      <<-6332625, -102675, -555, -1>> }

LnSeq(c) == [i \in 1..Len(c) |-> Ln(c[i])]

\* poly.polyval: Horner's rule from the highest power down.
RECURSIVE Horner(_, _, _)
Horner(x, c, i) ==
    IF i = Len(c) THEN c[i]
    ELSE LnAdd(c[i], LnMul(Horner(x, c, i + 1), x))

polyval(x, c) == Horner(x, c, 1)

\* (Rin + Rout) * 0.5 in units of the radius quantum.
MidPoint(bin) == (bin.Rin + bin.Rout) \div 2

\* The ln r at which a drawn table samples its profile: the bin's own, or a
\* nominal one for a bin whose midpoint is not positive.
SampleAt(m) == IF m > 0 THEN ILog(m) + RadiusQuantum ELSE -200

\* The table of n bins on radius grid g whose temperature and pressure
\* columns sample the log-log polynomials tc and pc, with relative errors
\* that differ from bin to bin.
Table(n, g, tc, pc) ==
    [i \in 1..n |->
        LET rin == g[1] + (i - 1) * g[2]
            x == Ln(SampleAt(rin + g[2] \div 2))
            tx == QExp(polyval(x, LnSeq(tc)))
            p == QExp(polyval(x, LnSeq(pc)))
        IN [Rin |-> rin, Rout |-> rin + g[2],
            Tx |-> tx, Txerr |-> QMul(tx, Q(1, -100 - 10 * i)),
            Pitpl |-> p, Perr |-> QMul(p, Q(1, -70 + 5 * i))]]

\* The spec's table invariant on the values: finite and positive.
ValuesPositive(t) ==
    \A i \in 1..Len(t) : t[i].Tx.k = "fin" /\ t[i].Pitpl.k = "fin"

Tables ==
    { t \in { Table(n, g, tc, pc) : n \in 1..MaxN, g \in RadiusGrids,
                                    tc \in TempCoeffs, pc \in PressureCoeffs } :
        ValuesPositive(t) }

(***************************************************************************)
(* extrapolate_radius (lines 228-247).                                     *)
(***************************************************************************)
\* np.arange(300.) / 100. - 3. in units of 0.01 dex.
NFine == 300
FineStep == 1
FineStart == -300

\* Variant: the fine grid without the shift by -3 (it would start at 0).
log10_r_fine_unshifted == [j \in 1..NFine |-> Ln((j - 1) * FineStep)]

log10_r_fine == [j \in 1..NFine |-> Ln((j - 1) * FineStep + FineStart)]

\* 10 ** log10_r_fine, in Mpc.
r_fine == [j \in 1..NFine |-> QExp(log10_r_fine[j])]

ln_r_fine == [j \in 1..NFine |-> QLog(r_fine[j])]

extrapolate_radius(data) ==
    LET r == [i \in 1..Len(data) |->
                 QMul(QInt(MidPoint(data[i])), Q(1, RadiusQuantum))]
    IN [r |-> r,
        ln_r |-> [i \in 1..Len(data) |-> QLog(r[i])],
        r_fine |-> r_fine,
        log10_r_fine |-> log10_r_fine,
        ln_r_fine |-> ln_r_fine]

(***************************************************************************)
(* fit_polynomial (lines 192-225).                                         *)
(***************************************************************************)
AllFinite(xs) == \A i \in 1..Len(xs) : xs[i].k = "fin"

NaNCoeffs(deg) == [i \in 1..(deg + 1) |-> LnNaN]

Candidates(deg) ==
    { LnSeq(c) : c \in { c \in TempCoeffs \cup PressureCoeffs :
                            Len(c) = deg + 1 } }

\* poly.polyfit(ln_r, ln_xray_property, deg), numpy's least-squares fit, on a
\* table of at least one row.  It has no lower limit on the number of
\* points: with fewer than deg + 1 distinct ln r it warns (RankWarning) and
\* returns one of the polynomials through the points.  The tables drawn
\* sample a polynomial exactly, so the residual is zero and the fit is a
\* candidate through every point: the sampled one when deg + 1 points
\* differ, any of them otherwise.  A NaN or infinite ln r makes the
\* LAPACK solve either give NaN coefficients (here) or raise (PolyfitRaises).
polyfit(ln_r, y, deg) ==
    IF AllFinite(ln_r) /\ AllFinite(y)
    THEN { c \in Candidates(deg) :
             \A i \in 1..Len(ln_r) : polyval(ln_r[i], c) = y[i] }
    ELSE { NaNCoeffs(deg) }

\* The fitpackage for the coefficients polyfit returned.
fit_polynomial(radiuspackage, coeffs) ==
    [fit |-> [i \in 1..Len(radiuspackage.ln_r) |->
                 QExp(polyval(radiuspackage.ln_r[i], coeffs))],
     r |-> radiuspackage.r,
     fit_fine |-> [j \in 1..Len(radiuspackage.ln_r_fine) |->
                      QExp(polyval(radiuspackage.ln_r_fine[j], coeffs))],
     r_fine |-> radiuspackage.r_fine,
     coeffs |-> coeffs]

(***************************************************************************)
(* grav_accel (lines 362-426).                                             *)
(***************************************************************************)
\* The loop "for i in np.arange(1, 4)" from step i on:
\* acc + float(i) * pressure_coeffs[i] * ln_r**(float(i - 1)).
RECURSIVE Accumulate(_, _, _, _)
Accumulate(acc, pressure_coeffs, x, i) ==
    IF i >= 4 THEN acc
    ELSE Accumulate(
             LnAdd(acc, LnMul(LnMul(Ln(i), pressure_coeffs[i + 1]),
                              LnPow(x, i - 1))),
             pressure_coeffs, x, i + 1)

\* Variant: the loop without the factor float(i).
RECURSIVE AccumulateUnweighted(_, _, _, _)
AccumulateUnweighted(acc, pressure_coeffs, x, i) ==
    IF i >= 4 THEN acc
    ELSE AccumulateUnweighted(
             LnAdd(acc, LnMul(pressure_coeffs[i + 1], LnPow(x, i - 1))),
             pressure_coeffs, x, i + 1)

dlnp_dlnr_unweighted(pressure_coeffs, x) ==
    AccumulateUnweighted(Ln(0), pressure_coeffs, x, 1)

\* One element of dlnp_dlnr: the loop run from np.zeros.
dlnp_dlnr_at(pressure_coeffs, x) == Accumulate(Ln(0), pressure_coeffs, x, 1)

\* const.m_p.to(u.g): 1.6726e-24 g.
mu_mp == Q(1, -2378)

\* Quantity.to(u.erg) of a value in keV: times 1.602e-9.
to_erg(x) == QMul(x, Q(1, -880))

\* Variant: g from the absolute value of the slope.
rg_at_abs_slope(temp_fit, dlnp) ==
    QMul(QDiv(QNeg(to_erg(temp_fit)), mu_mp),
         QOfLn(IF dlnp.k = "fin" THEN Ln(Abs(dlnp.v)) ELSE dlnp))

\* One element of rg: - temp_fit.to(u.erg) / mu_mp * dlnp_dlnr, the unary
\* minus first, then left to right.
rg_at(temp_fit, dlnp) == QMul(QDiv(QNeg(to_erg(temp_fit)), mu_mp), QOfLn(dlnp))

\* Variant: the relative error without the factor 2. on the pressure term.
relerr_unweighted(ln_perr, ln_terr) ==
    QSqrt(QAdd(QMul(QExp(ln_perr), QExp(ln_perr)),
               QMul(QExp(ln_terr), QExp(ln_terr))))

\* One element of relerr: np.sqrt(2. * np.exp(ln_perr)**2 + np.exp(ln_terr)**2).
relerr_at(ln_perr, ln_terr) ==
    QSqrt(QAdd(QMul(Q(1, 30), QMul(QExp(ln_perr), QExp(ln_perr))),
               QMul(QExp(ln_terr), QExp(ln_terr))))

\* One element of rgerr: (temp_fit.to(u.erg) / mu_mp) * relerr.
rgerr_at(temp_fit, relerr) == QMul(QDiv(to_erg(temp_fit), mu_mp), relerr)

(***************************************************************************)
(* coolingFunction (lines 429-458) and timescales (lines 461-548).         *)
(***************************************************************************)
\* (C1 * kT**alpha + C2 * kT**beta + C3) * 1.0e-22 with C1 = 8.6e-3,
\* C2 = 5.8e-2, C3 = 6.3e-2, alpha = -1.7, beta = 0.5.
coolingFunction(kT) ==
    QMul(QAdd(QAdd(QMul(Q(1, -207), QPow(kT, -17, 10)),
                   QMul(Q(1, -124), QPow(kT, 5, 10))),
              Q(1, -120)),
         Q(1, -2200))

\* Variant: the free-fall time of |g|.
tff_of_abs_g(rg, r) ==
    QMul(QSqrt(QDiv(Q(1, 30), IF IsNaN(rg) THEN rg ELSE [rg EXCEPT !.s = 1])), r)

\* One element of tff: np.sqrt(2.0 / rg) * r.
tff_at(rg, r) == QMul(QSqrt(QDiv(Q(1, 30), rg)), r)

\* One element of nelec: pressure_fit / temp_fit.
nelec_at(pressure_fit, temp_fit) == QDiv(pressure_fit, temp_fit)

\* Variant: the cooling time with nelec in place of nelec**2.
tcool_linear_in_nelec(pressure_fit, nelec, capital_lambda) ==
    QDiv(QDiv(QMul(Q(1, 18), QMul(Q(1, 28), pressure_fit)),
              QDiv(nelec, Q(1, 3))),
         capital_lambda)

\* One element of tcool:
\* (3 / 2) * (1.89 * pressure_fit) / (nelec**2 / 1.07) / capital_lambda.
tcool_at(pressure_fit, nelec, capital_lambda) ==
    QDiv(QDiv(QMul(Q(1, 18), QMul(Q(1, 28), pressure_fit)),
              QDiv(QMul(nelec, nelec), Q(1, 3))),
         capital_lambda)

\* Quantity.to(u.yr) of tcool (keV^2 s erg^-2: times 8.13e-26) and of tff
\* (Mpc s cm^-1: times 9.78e16).
tcool_to_yr(x) == QMul(x, Q(1, -2509))
tff_to_yr(x) == QMul(x, Q(1, 1699))

\* One element of precip_ratio_fine.
precip_ratio_at(tcool, tff) == QDiv(tcool_to_yr(tcool), tff_to_yr(tff))

(***************************************************************************)
(* plotter (lines 551-595): style.use('ggplot') and four writes to the     *)
(* process-wide plt.rcParams, then plt.figure().                           *)
(***************************************************************************)
DefaultRcParams ==
    [style |-> "default", font_size |-> "default",
     axes_labelsize |-> "default", xtick_labelsize |-> "default",
     ytick_labelsize |-> "default"]

plotter(rc) ==
    [rc EXCEPT !.style = "ggplot", !.font_size = "12",
               !.axes_labelsize = "12", !.xtick_labelsize = "12",
               !.ytick_labelsize = "12"]

(***************************************************************************)
(* The run.                                                                *)
(***************************************************************************)
VARIABLES
    data,               \* the observation table handed to timescales()
    pc,                 \* where the run is
    radiuspackage,      \* what the last extrapolate_radius(data) returned
    temppackage,        \* what logTemp_fit returned
    pressurepackage,    \* what logPressure_fit returned
    dlnp_dlnr,          \* grav_accel's local, observed grid
    dlnp_dlnr_fine,     \* grav_accel's local, fine grid
    rgpackage,          \* what grav_accel returned
    tff, tff_fine,      \* timescales' locals
    tcool, tcool_fine,
    precip_ratio_fine,
    rcParams,           \* matplotlib's process-wide configuration
    figures,            \* the number of pyplot figures opened
    raised,             \* the exception that ended the run, if one did
    cluster_name,       \* filter_by_cluster's parameter and local
    new_cluster_name,   \* the last answer input() returned, as [str |-> it]
    cluster_found,
    masked_data         \* what filter_by_cluster returned

vars ==
    <<data, pc, radiuspackage, temppackage, pressurepackage, dlnp_dlnr,
      dlnp_dlnr_fine, rgpackage, tff, tff_fine, tcool, tcool_fine,
      precip_ratio_fine, rcParams, figures, raised, cluster_name,
      new_cluster_name, cluster_found, masked_data>>

\* The locals of filter_by_cluster, gone once parse_data_table has returned.
filter_by_cluster_locals ==
    <<cluster_name, new_cluster_name, cluster_found, masked_data>>

\* The state of the pipeline that follows parse_data_table.
pipeline ==
    <<radiuspackage, temppackage, pressurepackage, dlnp_dlnr, dlnp_dlnr_fine,
      rgpackage, tff, tff_fine, tcool, tcool_fine, precip_ratio_fine,
      rcParams, figures>>

\* A package not yet returned, a local not yet assigned.
None == [none |-> TRUE]

Init ==
    /\ data \in Tables
    /\ pc = "logTemp_fit.extrapolate_radius"
    /\ radiuspackage = None
    /\ temppackage = None
    /\ pressurepackage = None
    /\ dlnp_dlnr = None
    /\ dlnp_dlnr_fine = None
    /\ rgpackage = None
    /\ tff = None
    /\ tff_fine = None
    /\ tcool = None
    /\ tcool_fine = None
    /\ precip_ratio_fine = None
    /\ rcParams = DefaultRcParams
    /\ figures = 0
    /\ raised = "none"
    /\ cluster_name = None
    /\ new_cluster_name = None
    /\ cluster_found = None
    /\ masked_data = None

\* The pc after the call of extrapolate_radius returns: to fit_polynomial
\* (line 199, under logTemp_fit and under logPressure_fit) or to grav_accel
\* (line 366).
AfterRadius(at) ==
    CASE at = "logTemp_fit.extrapolate_radius" -> "logTemp_fit"
      [] at = "logPressure_fit.extrapolate_radius" -> "logPressure_fit"
      [] at = "grav_accel.extrapolate_radius" -> "grav_accel"

ExtrapolateRadius ==
    /\ pc \in {"logTemp_fit.extrapolate_radius",
               "logPressure_fit.extrapolate_radius",
               "grav_accel.extrapolate_radius"}
    /\ radiuspackage' = extrapolate_radius(data)
    /\ pc' = AfterRadius(pc)
    /\ UNCHANGED filter_by_cluster_locals
    /\ UNCHANGED <<data, temppackage, pressurepackage, dlnp_dlnr,
                   dlnp_dlnr_fine, rgpackage, tff, tff_fine, tcool,
                   tcool_fine, precip_ratio_fine, rcParams, figures, raised>>

\* ln_t and ln_terr of logTemp_fit (lines 263-264), ln_p and ln_perr of
\* logPressure_fit (lines 318-319).
ln_t(d) == [i \in 1..Len(d) |-> QLog(d[i].Tx)]
ln_terr(d) == [i \in 1..Len(d) |-> QLog(QDiv(d[i].Txerr, d[i].Tx))]
ln_p(d) == [i \in 1..Len(d) |-> QLog(d[i].Pitpl)]
ln_perr(d) == [i \in 1..Len(d) |-> QLog(QDiv(d[i].Perr, d[i].Pitpl))]

\* logTemp_fit from the return of extrapolate_radius on: the degree-2 fit,
\* the plot, the package.
LogTempFit ==
    /\ pc = "logTemp_fit"
    /\ \E coeffs \in polyfit(radiuspackage.ln_r, ln_t(data), 2) :
         LET fitpackage == fit_polynomial(radiuspackage, coeffs)
         IN temppackage' = [temp_coeffs |-> fitpackage.coeffs,
                            temp_fit |-> fitpackage.fit,
                            temp_fit_fine |-> fitpackage.fit_fine,
                            ln_terr |-> ln_terr(data)]
    /\ rcParams' = plotter(rcParams)
    /\ figures' = figures + 1
    /\ pc' = "logPressure_fit.extrapolate_radius"
    /\ UNCHANGED filter_by_cluster_locals
    /\ UNCHANGED <<data, radiuspackage, pressurepackage, dlnp_dlnr,
                   dlnp_dlnr_fine, rgpackage, tff, tff_fine, tcool,
                   tcool_fine, precip_ratio_fine, raised>>

\* logPressure_fit likewise, with degree 3.
LogPressureFit ==
    /\ pc = "logPressure_fit"
    /\ \E coeffs \in polyfit(radiuspackage.ln_r, ln_p(data), 3) :
         LET fitpackage == fit_polynomial(radiuspackage, coeffs)
         IN pressurepackage' = [pressure_coeffs |-> fitpackage.coeffs,
                                pressure_fit |-> fitpackage.fit,
                                pressure_fit_fine |-> fitpackage.fit_fine,
                                ln_perr |-> ln_perr(data)]
    /\ rcParams' = plotter(rcParams)
    /\ figures' = figures + 1
    /\ pc' = "grav_accel.extrapolate_radius"
    /\ UNCHANGED filter_by_cluster_locals
    /\ UNCHANGED <<data, radiuspackage, temppackage, dlnp_dlnr,
                   dlnp_dlnr_fine, rgpackage, tff, tff_fine, tcool,
                   tcool_fine, precip_ratio_fine, raised>>

\* poly.polyfit on an ln r that is not finite: np.linalg.lstsq raises
\* LinAlgError ("SVD did not converge") where the LAPACK build reports the
\* failure; nothing catches it and the run ends.
PolyfitRaises ==
    /\ pc \in {"logTemp_fit", "logPressure_fit"}
    /\ ~AllFinite(radiuspackage.ln_r)
    /\ raised' = "LinAlgError"
    /\ pc' = "raised"
    /\ UNCHANGED filter_by_cluster_locals
    /\ UNCHANGED <<data, radiuspackage, temppackage, pressurepackage,
                   dlnp_dlnr, dlnp_dlnr_fine, rgpackage, tff, tff_fine,
                   tcool, tcool_fine, precip_ratio_fine, rcParams, figures>>

\* grav_accel from the return of its own extrapolate_radius on.
GravAccel ==
    /\ pc = "grav_accel"
    /\ LET n == Len(radiuspackage.ln_r)
           m == Len(radiuspackage.ln_r_fine)
           slope == [i \in 1..n |->
                        dlnp_dlnr_at(pressurepackage.pressure_coeffs,
                                     radiuspackage.ln_r[i])]
           slope_fine == [j \in 1..m |->
                             dlnp_dlnr_at(pressurepackage.pressure_coeffs,
                                          radiuspackage.ln_r_fine[j])]
       IN /\ dlnp_dlnr' = slope
          /\ dlnp_dlnr_fine' = slope_fine
          /\ rgpackage' =
               [r |-> radiuspackage.r,
                ln_r |-> radiuspackage.ln_r,
                r_fine |-> radiuspackage.r_fine,
                log10_r_fine |-> radiuspackage.log10_r_fine,
                ln_r_fine |-> radiuspackage.ln_r_fine,
                rg |-> [i \in 1..n |->
                           rg_at(temppackage.temp_fit[i], slope[i])],
                rg_fine |-> [j \in 1..m |->
                                rg_at(temppackage.temp_fit_fine[j],
                                      slope_fine[j])],
                rgerr |-> [i \in 1..n |->
                              rgerr_at(temppackage.temp_fit[i],
                                       relerr_at(pressurepackage.ln_perr[i],
                                                 temppackage.ln_terr[i]))]]
    /\ rcParams' = plotter(rcParams)
    /\ figures' = figures + 1
    /\ pc' = "timescales"
    /\ UNCHANGED filter_by_cluster_locals
    /\ UNCHANGED <<data, radiuspackage, temppackage, pressurepackage, tff,
                   tff_fine, tcool, tcool_fine, precip_ratio_fine, raised>>

\* timescales from the return of grav_accel on; it opens two figures of its
\* own with plt.figure() (lines 499, 537).
Timescales ==
    /\ pc = "timescales"
    /\ LET n == Len(rgpackage.r)
           m == Len(rgpackage.r_fine)
           t == [i \in 1..n |-> tff_at(rgpackage.rg[i], rgpackage.r[i])]
           tf == [j \in 1..m |->
                     tff_at(rgpackage.rg_fine[j], rgpackage.r_fine[j])]
           tc == [i \in 1..n |->
                     tcool_at(pressurepackage.pressure_fit[i],
                              nelec_at(pressurepackage.pressure_fit[i],
                                       temppackage.temp_fit[i]),
                              coolingFunction(temppackage.temp_fit[i]))]
           tcf == [j \in 1..m |->
                      tcool_at(pressurepackage.pressure_fit_fine[j],
                               nelec_at(pressurepackage.pressure_fit_fine[j],
                                        temppackage.temp_fit_fine[j]),
                               coolingFunction(temppackage.temp_fit_fine[j]))]
       IN /\ tff' = t
          /\ tff_fine' = tf
          /\ tcool' = tc
          /\ tcool_fine' = tcf
          /\ precip_ratio_fine' =
               [j \in 1..m |-> precip_ratio_at(tcf[j], tf[j])]
    /\ figures' = figures + 2
    /\ pc' = "done"
    /\ UNCHANGED filter_by_cluster_locals
    /\ UNCHANGED <<data, radiuspackage, temppackage, pressurepackage,
                   dlnp_dlnr, dlnp_dlnr_fine, rgpackage, rcParams, raised>>

Next ==
    \/ ExtrapolateRadius
    \/ LogTempFit
    \/ LogPressureFit
    \/ PolyfitRaises
    \/ GravAccel
    \/ Timescales

Spec == Init /\ [][Next]_vars

(***************************************************************************)
(* filter_by_cluster (lines 123-148), called by parse_data_table (line     *)
(* 116) on the whole table with the name parse_arguments made of the       *)
(* command line.  A string is the sequence of its characters; a table row  *)
(* is its Name and its position in the file, which stands for the other    *)
(* columns.                                                                *)
(***************************************************************************)
\* The characters typed: the double quote, the space, a lower-case letter
\* and its upper-case form (the underscore comes of the space).
Chars == {"\"", " ", "a", "A"}

\* The longest answer and command-line name drawn, and the most rows.
MaxLen == 3
MaxRows == 2

RECURSIVE StringsOfLen(_)
StringsOfLen(n) ==
    IF n = 0 THEN {<<>>}
    ELSE {Append(w, c) : w \in StringsOfLen(n - 1), c \in Chars}

\* What input() can return, and what -n can carry.
Answers == UNION {StringsOfLen(n) : n \in 0..MaxLen}

\* str.replace(' ', '_').
replace(str) == [i \in 1..Len(str) |-> IF str[i] = " " THEN "_" ELSE str[i]]

\* str.upper().
upper(str) == [i \in 1..Len(str) |-> IF str[i] = "a" THEN "A" ELSE str[i]]

\* new_cluster_name.startswith('"') and new_cluster_name.endswith('"'): true
\* of the one-character string '"' too, false of the empty string.
messyname(str) == Len(str) >= 1 /\ str[1] = "\"" /\ str[Len(str)] = "\""

\* str[1:-1]: the empty string when str has fewer than two characters.
slice_1_m1(str) == SubSeq(str, 2, Len(str) - 1)

\* Variant: the answer's name without the upper-casing.
name_not_uppercased(str) ==
    IF messyname(str) THEN replace(slice_1_m1(str)) ELSE replace(str)

\* The cluster_name the loop body makes of an answer (lines 137-141).
name_of_answer(str) ==
    IF messyname(str) THEN upper(replace(slice_1_m1(str)))
    ELSE upper(replace(str))

\* The Name column of the tables drawn: two names of the ACCEPT kind, one in
\* lower case, and one that is a lone double quote.
TableNames == {<<"A">>, <<"A", "_", "A">>, <<"a">>, <<"\"">>}

RawTables ==
    UNION {[1..n -> TableNames] : n \in 1..MaxRows}

\* A table of rows from its Name column.
RowsOf(names) == [i \in 1..Len(names) |-> [Name |-> names[i], row |-> i]]

\* clusters_in_table['Name']: the keys of data.group_by('Name').
clusters_in_table(table) == {table[i].Name : i \in 1..Len(table)}

\* data[data['Name'] == cluster_name]: the rows of that name, in file order.
masked(table, name) == SelectSeq(table, LAMBDA row : row.Name = name)

\* parse_arguments (line 90) hands over the -n argument with its spaces
\* replaced and upper-cased; filter_by_cluster makes the first test (line
\* 128) on it.
FilterInit ==
    /\ \E names \in RawTables : data = RowsOf(names)
    /\ \E arg \in Answers : cluster_name = upper(replace(arg))
    /\ cluster_found = (cluster_name \in clusters_in_table(data))
    /\ new_cluster_name = None
    /\ masked_data = None
    /\ pc = "filter_by_cluster.while"
    /\ raised = "none"
    /\ radiuspackage = None
    /\ temppackage = None
    /\ pressurepackage = None
    /\ dlnp_dlnr = None
    /\ dlnp_dlnr_fine = None
    /\ rgpackage = None
    /\ tff = None
    /\ tff_fine = None
    /\ tcool = None
    /\ tcool_fine = None
    /\ precip_ratio_fine = None
    /\ rcParams = DefaultRcParams
    /\ figures = 0

\* One turn of the while loop (lines 130-142): the prompt, the answer, the
\* new cluster_name, the new test.
PromptAgain ==
    /\ pc = "filter_by_cluster.while"
    /\ ~cluster_found
    /\ \E answer \in Answers :
         /\ new_cluster_name' = [str |-> answer]
         /\ cluster_name' = name_of_answer(answer)
         /\ cluster_found' =
              (name_of_answer(answer) \in clusters_in_table(data))
    /\ UNCHANGED <<data, pc, masked_data, raised>>
    /\ UNCHANGED pipeline

\* input() at the end of standard input raises EOFError; nothing catches it.
InputRaises ==
    /\ pc = "filter_by_cluster.while"
    /\ ~cluster_found
    /\ raised' = "EOFError"
    /\ pc' = "raised"
    /\ UNCHANGED <<data, cluster_name, new_cluster_name, cluster_found,
                   masked_data>>
    /\ UNCHANGED pipeline

\* Lines 144-148: the loop is left, the mask is applied, the rows returned.
ReturnMasked ==
    /\ pc = "filter_by_cluster.while"
    /\ cluster_found
    /\ masked_data' = masked(data, cluster_name)
    /\ pc' = "filter_by_cluster.returned"
    /\ UNCHANGED <<data, cluster_name, new_cluster_name, cluster_found,
                   raised>>
    /\ UNCHANGED pipeline

FilterNext ==
    \/ PromptAgain
    \/ InputRaises
    \/ ReturnMasked

FilterSpec == FilterInit /\ [][FilterNext]_vars

(***************************************************************************)
(* Properties.                                                             *)
(***************************************************************************)
Produced(x) == x # None

\* The typed failures the specification names.
ErrorKinds ==
    {"InvalidRadius", "InsufficientData", "DegreeMismatch", "UnphysicalResult"}

AllOf(xs, P(_)) == \A i \in 1..Len(xs) : P(xs[i])

\* C1: no run finishes having produced a profile that holds a negative g or
\* a NaN or non-positive timescale: such a run would have aborted with one
\* of the typed failures instead (the program raises none of them, and its
\* only abort is the LinAlgError of PolyfitRaises).  Stated for the tables
\* whose radii are all positive, where no other failure comes first.
C1_RunCompletesCleanOrReports ==
    (pc = "done" /\ raised \notin ErrorKinds /\ AllOf(rgpackage.r, IsPos)) =>
        /\ AllOf(rgpackage.rg, LAMBDA g : ~IsNeg(g))
        /\ AllOf(rgpackage.rg_fine, LAMBDA g : ~IsNeg(g))
        /\ AllOf(tff, IsPos) /\ AllOf(tff_fine, IsPos)
        /\ AllOf(tcool, IsPos) /\ AllOf(tcool_fine, IsPos)

\* C2: no radial grid is returned for a table with a bin midpoint <= 0.
C2_NonPositiveRadiusFails ==
    Produced(radiuspackage) => AllOf(radiuspackage.r, IsPos)

\* C3: a degree-d fit is produced only from more than d bins: temperature
\* (degree 2) from at least 3, pressure (degree 3) from at least 4.
C3_FitNeedsMorePointsThanDegree ==
    /\ Produced(temppackage) => Len(data) > 2
    /\ Produced(pressurepackage) => Len(data) > 3

\* A property of every point of the observed grid and of the fine grid, after
\* grav_accel: P(ln r, fitted temperature, dlnP/dlnr, g).
AtEveryPoint(P(_, _, _, _)) ==
    /\ \A i \in 1..Len(rgpackage.rg) :
         P(rgpackage.ln_r[i], temppackage.temp_fit[i], dlnp_dlnr[i],
           rgpackage.rg[i])
    /\ \A j \in 1..Len(rgpackage.rg_fine) :
         P(rgpackage.ln_r_fine[j], temppackage.temp_fit_fine[j],
           dlnp_dlnr_fine[j], rgpackage.rg_fine[j])

\* |g| for a finite positive temperature and a non-zero slope:
\* kT (keV -> erg, / m_p) times |dlnP/dlnr|.
GMagnitude(temp, slope) == temp.e - 880 + 2378 + ILog(Abs(slope.v))

\* No step of kT -> erg -> / m_p -> * slope leaves the binary64 range.
GInRange(temp, slope) ==
    /\ InRange(temp.e - 880)
    /\ InRange(temp.e - 880 + 2378)
    /\ slope.v # 0 => InRange(GMagnitude(temp, slope))

C5_AnalyticDerivative ==
    Produced(rgpackage) =>
        LET c == pressurepackage.pressure_coeffs
        IN AtEveryPoint(LAMBDA x, temp, slope, g :
              IF AllFinite(c) /\ x.k = "fin"
              THEN slope = Ln(c[2].v + 2 * c[3].v * x.v
                                     + 3 * c[4].v * x.v * x.v)
              ELSE slope.k = "nan")

\* C5's case: an observed bin at ln r = 0 with c1 # 0, where the loop gave c1.
C5_Witness ==
    /\ Produced(rgpackage)
    /\ \E i \in 1..Len(rgpackage.ln_r) :
         /\ rgpackage.ln_r[i] = Ln(0)
         /\ pressurepackage.pressure_coeffs[2].v # 0
         /\ dlnp_dlnr[i] = pressurepackage.pressure_coeffs[2]

\* A property of every point of both grids after timescales:
\* P(r, g, free-fall time).
AtEveryTff(P(_, _, _)) ==
    /\ \A i \in 1..Len(tff) : P(rgpackage.r[i], rgpackage.rg[i], tff[i])
    /\ \A j \in 1..Len(tff_fine) :
         P(rgpackage.r_fine[j], rgpackage.rg_fine[j], tff_fine[j])

\* C6 as claimed: the free-fall time is NaN at every point where g <= 0, for
\* g < 0 and for g = 0 alike.
C6_NaNWhereverGNotPositive ==
    pc = "done" =>
        AtEveryTff(LAMBDA r, g, t : (IsNeg(g) \/ IsZero(g)) => IsNaN(t))

\* C6 as amended: the free-fall time is r*sqrt(2/g) at every point of both
\* grids (r > 0); it is NaN where g is a negative number and where g is -0.0
\* (the zero of a zero pressure slope), +inf where g is +0.0 (an underflowed
\* temperature under a falling pressure), +0.0 where g is +inf and -0.0 where
\* g is -inf; elsewhere, while 2/g and the product stay in the binary64
\* range, it is the positive number r*sqrt(2/g).
C6_FreefallTime ==
    pc = "done" =>
        AtEveryTff(LAMBDA r, g, t :
            IF IsNaN(g) \/ (IsNeg(g) /\ IsFinite(g)) \/ g = QZero(-1)
            THEN IsNaN(t)
            ELSE (r.k = "fin" /\ r.s = 1) =>
                   /\ g = QInf(-1) => t = QZero(-1)
                   /\ g = QZero(1) => t = QInf(1)
                   /\ g = QInf(1) => t = QZero(1)
                   /\ (g.k = "fin" /\ InRange(30 - g.e)
                         /\ InRange(((30 - g.e) \div 2) + r.e))
                        => t = Q(1, ((30 - g.e) \div 2) + r.e))

\* C6's case: timescales has run over a fine grid that holds a point with
\* g = +0.0 (free-fall time +inf), one with g = -0.0 and one with g < 0
\* (free-fall time NaN).
C6_Witness ==
    /\ pc = "done"
    /\ \E j \in 1..Len(tff_fine) :
         rgpackage.rg_fine[j] = QZero(1) /\ tff_fine[j] = QInf(1)
    /\ \E j \in 1..Len(tff_fine) :
         rgpackage.rg_fine[j] = QZero(-1) /\ IsNaN(tff_fine[j])

\* A property of every point of both grids after timescales:
\* P(g, fitted temperature, fitted pressure, free-fall time, cooling time).
AtEveryTimescale(P(_, _, _, _, _)) ==
    /\ \A i \in 1..Len(tff) :
         P(rgpackage.rg[i], temppackage.temp_fit[i],
           pressurepackage.pressure_fit[i], tff[i], tcool[i])
    /\ \A j \in 1..Len(tff_fine) :
         P(rgpackage.rg_fine[j], temppackage.temp_fit_fine[j],
           pressurepackage.pressure_fit_fine[j], tff_fine[j], tcool_fine[j])

\* C7 as claimed: wherever g > 0 and Lambda > 0 the free-fall time and the
\* cooling time are strictly positive, and so is the precipitation ratio on
\* the fine grid.
C7_PositiveWhereGAndLambdaPositive ==
    pc = "done" =>
        /\ AtEveryTimescale(LAMBDA g, temp, pres, tf, tc :
              (IsPos(g) /\ IsPos(coolingFunction(temp)))
                  => (IsPos(tf) /\ IsPos(tc)))
        /\ \A j \in 1..Len(precip_ratio_fine) :
              (/\ IsPos(rgpackage.rg_fine[j])
               /\ IsPos(coolingFunction(temppackage.temp_fit_fine[j])))
                  => IsPos(precip_ratio_fine[j])

\* The exponent of the cooling time for a fitted pressure pres, a fitted
\* temperature temp and a cooling rate lam, all finite and positive:
\* (3/2) * 1.89 * P / ((P/T)^2 / 1.07) / Lambda.
TcoolExponent(pres, temp, lam) ==
    18 + 28 + pres.e - (2 * (pres.e - temp.e) - 3) - lam.e

\* No step of the cooling time leaves the binary64 range.
TcoolInRange(pres, temp, lam) ==
    /\ InRange(28 + pres.e)
    /\ InRange(18 + 28 + pres.e)
    /\ InRange(pres.e - temp.e)
    /\ InRange(2 * (pres.e - temp.e))
    /\ InRange(2 * (pres.e - temp.e) - 3)
    /\ InRange(18 + 28 + pres.e - (2 * (pres.e - temp.e) - 3))
    /\ InRange(TcoolExponent(pres, temp, lam))

\* C7 as amended: wherever g and Lambda are finite and positive, the fitted
\* pressure is finite and not zero, and no step of the two formulas leaves
\* the binary64 range, the free-fall time and the cooling time are finite and
\* strictly positive, the cooling time being
\* (3/2)*(1.89*P_fit)/(n_e^2/1.07)/Lambda with n_e = P_fit/T_fit; where the
\* conversions to years stay in range too, the precipitation ratio on the
\* fine grid is finite and strictly positive.
C7_PositiveTimescales ==
    pc = "done" =>
        /\ AtEveryTimescale(LAMBDA g, temp, pres, tf, tc :
              LET lam == coolingFunction(temp)
              IN (/\ g.k = "fin" /\ g.s = 1
                  /\ lam.k = "fin" /\ lam.s = 1
                  /\ temp.k = "fin" /\ pres.k = "fin"
                  /\ InRange(30 - g.e) /\ tf.k = "fin"
                  /\ TcoolInRange(pres, temp, lam))
                 => /\ tf.s = 1
                    /\ tc = Q(1, TcoolExponent(pres, temp, lam))
                    /\ tc.k = "fin")
        /\ \A j \in 1..Len(precip_ratio_fine) :
              LET tf == tff_fine[j]
                  tc == tcool_fine[j]
              IN (/\ tf.k = "fin" /\ tf.s = 1 /\ tc.k = "fin" /\ tc.s = 1
                  /\ InRange(tc.e - 2509) /\ InRange(tf.e + 1699)
                  /\ InRange(tc.e - 2509 - (tf.e + 1699)))
                 => precip_ratio_fine[j] = Q(1, tc.e - 2509 - (tf.e + 1699))

\* C7's case: timescales has run over a profile with g > 0 and Lambda > 0 at
\* an observed bin, with finite positive timescales there, and a fine grid
\* with a finite positive precipitation ratio.
C7_Witness ==
    /\ pc = "done"
    /\ \E i \in 1..Len(tff) :
         /\ rgpackage.rg[i].k = "fin" /\ rgpackage.rg[i].s = 1
         /\ IsPos(coolingFunction(temppackage.temp_fit[i]))
         /\ tff[i].k = "fin" /\ tff[i].s = 1
         /\ tcool[i].k = "fin" /\ tcool[i].s = 1
    /\ \E j \in 1..Len(precip_ratio_fine) :
         precip_ratio_fine[j].k = "fin" /\ precip_ratio_fine[j].s = 1

\* kT_fit/(mu*m_p) for a finite positive fitted temperature, in erg/g.
KTOverMuMp(temp) == Q(1, temp.e - 880 + 2378)

\* The value of a number x of the logarithmic axis as a plain number:
\* x * ln(10)/100, and ln(10)/100 = 10^(-1.64).
LnValue(x) == QMul(QInt(x.v), Q(1, -164))

\* The bins where the error of g is a number: positive table values, finite
\* fitted temperature.
ErrorDefined(i) ==
    /\ temppackage.temp_fit[i].k = "fin"
    /\ temppackage.ln_terr[i].k = "fin"
    /\ pressurepackage.ln_perr[i].k = "fin"
    /\ InRange(temppackage.temp_fit[i].e - 880)

\* C8 as claimed: the relative error of g is
\* sqrt(2*(ln_perr)^2 + (ln_terr)^2) with ln_perr = ln(Perr/P) and
\* ln_terr = ln(Txerr/Tx) themselves squared, and the absolute error is
\* kT_fit/(mu*m_p) times it.
C8_ErrorFromLogUncertainties ==
    Produced(rgpackage) =>
        \A i \in 1..Len(rgpackage.rgerr) :
            ErrorDefined(i) =>
                LET lp == LnValue(pressurepackage.ln_perr[i])
                    lt == LnValue(temppackage.ln_terr[i])
                IN rgpackage.rgerr[i] =
                     QMul(KTOverMuMp(temppackage.temp_fit[i]),
                          QSqrt(QAdd(QMul(Q(1, 30), QMul(lp, lp)),
                                     QMul(lt, lt))))

\* C8 as amended: the relative error of g is
\* sqrt(2*(Perr/P)^2 + (Txerr/Tx)^2), the log-space uncertainties being
\* exponentiated back to Perr/P and Txerr/Tx before they are squared, and
\* the absolute error is kT_fit/(mu*m_p) times it.
C8_ErrorPropagation ==
    Produced(rgpackage) =>
        \A i \in 1..Len(rgpackage.rgerr) :
            ErrorDefined(i) =>
                LET relp == data[i].Perr.e - data[i].Pitpl.e
                    relt == data[i].Txerr.e - data[i].Tx.e
                IN /\ pressurepackage.ln_perr[i] = Ln(relp)
                   /\ temppackage.ln_terr[i] = Ln(relt)
                   /\ rgpackage.rgerr[i] =
                        QMul(KTOverMuMp(temppackage.temp_fit[i]),
                             QSqrt(QAdd(Q(1, 30 + 2 * relp),
                                        Q(1, 2 * relt))))

\* C8's case: grav_accel has returned the error of g for a bin whose
\* pressure and temperature uncertainties differ.
C8_Witness ==
    /\ Produced(rgpackage)
    /\ \E i \in 1..Len(rgpackage.rgerr) :
         /\ ErrorDefined(i)
         /\ pressurepackage.ln_perr[i] # temppackage.ln_terr[i]
         /\ rgpackage.rgerr[i].k = "fin"

\* The observed grid of extrapolate_radius: one midpoint per bin, in bin
\* order.
ObservedGridIsMidpoints ==
    /\ Len(radiuspackage.r) = Len(data)
    /\ Len(radiuspackage.ln_r) = Len(data)
    /\ \A i \in 1..Len(data) :
         /\ radiuspackage.r[i] =
              QMul(QInt((data[i].Rin + data[i].Rout) \div 2),
                   Q(1, RadiusQuantum))
         /\ radiuspackage.ln_r[i] = QLog(radiuspackage.r[i])

\* The fine grid runs from first to last in steps of 0.01 in log10 r, with
\* its radii and their natural logs.
FineGridSpans(first, last) ==
    /\ Len(radiuspackage.log10_r_fine) = 300
    /\ Len(radiuspackage.r_fine) = 300
    /\ Len(radiuspackage.ln_r_fine) = 300
    /\ radiuspackage.log10_r_fine[1] = Ln(first)
    /\ radiuspackage.log10_r_fine[300] = Ln(last)
    /\ \A j \in 1..299 :
         radiuspackage.log10_r_fine[j + 1].v
             = radiuspackage.log10_r_fine[j].v + 1
    /\ \A j \in 1..300 :
         /\ radiuspackage.r_fine[j] = Q(1, radiuspackage.log10_r_fine[j].v)
         /\ radiuspackage.ln_r_fine[j] = radiuspackage.log10_r_fine[j]

\* C9 as claimed: N midpoints in bin order, and a fine grid of 300 points in
\* steps of 0.01 over [-3, 3), whose last point is 2.99.
C9_FineGridToPlusThree ==
    Produced(radiuspackage) =>
        (ObservedGridIsMidpoints /\ FineGridSpans(-300, 299))

\* C9 as amended: N midpoints in bin order, and a fine grid, the same for
\* every table, of 300 points in steps of 0.01 over [-3, 0), whose last point
\* is -0.01, each with its own natural-log transform.
C9_RadialGrids ==
    Produced(radiuspackage) =>
        (ObservedGridIsMidpoints /\ FineGridSpans(-300, -1))

\* C9's case: extrapolate_radius has returned for a table of several bins.
C9_Witness ==
    /\ Produced(radiuspackage)
    /\ Len(data) >= 3
    /\ Len(radiuspackage.r) = Len(data)
    /\ radiuspackage.r[1] # radiuspackage.r[2]
    /\ radiuspackage.log10_r_fine[300] = Ln(-1)

\* C10: no step of the run changes the observation table, a package an
\* earlier stage returned, or the process-wide configuration and figure
\* registry of matplotlib.
C10_NoStageMutatesSharedState ==
    [][/\ data' = data
       /\ Produced(temppackage) => temppackage' = temppackage
       /\ Produced(pressurepackage) => pressurepackage' = pressurepackage
       /\ Produced(rgpackage) => rgpackage' = rgpackage
       /\ rcParams' = rcParams
       /\ figures' = figures]_vars

\* The rows of the table, in file order, whose Name is name: rows is such
\* a selection when it holds rows of that name only, in increasing file
\* position, and as many as the table has.
ExactlyRowsNamed(rows, table, name) ==
    /\ \A k \in 1..Len(rows) :
         /\ rows[k].Name = name
         /\ rows[k].row \in 1..Len(table)
         /\ table[rows[k].row] = rows[k]
    /\ \A k \in 1..(Len(rows) - 1) : rows[k].row < rows[k + 1].row
    /\ Len(rows) = Cardinality({i \in 1..Len(table) : table[i].Name = name})

\* The normal form of a string: spaces to underscores, letters to upper
\* case.
Normal(str) ==
    [i \in 1..Len(str) |->
        IF str[i] = " " THEN "_" ELSE IF str[i] = "a" THEN "A" ELSE str[i]]

\* An answer with one pair of surrounding double quotes: at least two
\* characters, the first and the last a double quote.
HasQuotePair(str) == Len(str) >= 2 /\ str[1] = "\"" /\ str[Len(str)] = "\""

\* What holds of filter_by_cluster whatever an answer is normalized to:
\* the test is the membership of the current name in the table's names, the
\* function returns only with a matched name and then exactly that name's
\* rows, and while the name is unmatched it has not returned and the prompt
\* comes again.
ReturnsOnlyOnMatch ==
    /\ pc \in {"filter_by_cluster.while", "filter_by_cluster.returned"} =>
         cluster_found = (\E i \in 1..Len(data) : data[i].Name = cluster_name)
    /\ pc = "filter_by_cluster.returned" =>
         /\ cluster_found
         /\ ExactlyRowsNamed(masked_data, data, cluster_name)
    /\ (pc = "filter_by_cluster.while" /\ ~cluster_found) =>
         /\ masked_data = None
         /\ ENABLED PromptAgain

\* C11 as claimed: the name compared after an answer is the answer with one
\* pair of surrounding double quotes stripped, spaces replaced by
\* underscores, upper-cased; the function returns only with a name that is
\* in the table, then with exactly the rows of that name, and prompts again
\* while the name is unmatched.
C11_StripsOnePairOfQuotes ==
    /\ ReturnsOnlyOnMatch
    /\ new_cluster_name # None =>
         LET answer == new_cluster_name.str
         IN cluster_name =
              Normal(IF HasQuotePair(answer)
                     THEN SubSeq(answer, 2, Len(answer) - 1)
                     ELSE answer)

\* C11 as amended: an answer that starts and ends with a double quote loses
\* its first and its last character, and the answer that is a lone double
\* quote, which starts and ends with the same one, becomes the empty name;
\* then spaces are replaced by underscores and the name is upper-cased.  The
\* rest is as claimed.
C11_FilterByCluster ==
    /\ ReturnsOnlyOnMatch
    /\ new_cluster_name # None =>
         LET answer == new_cluster_name.str
         IN cluster_name =
              Normal(IF answer = <<"\"">> THEN <<>>
                     ELSE IF HasQuotePair(answer)
                          THEN SubSeq(answer, 2, Len(answer) - 1)
                          ELSE answer)

\* C11's case: after an unmatched name and a quoted lower-case answer, the
\* function has returned the one row of the matched name out of a table
\* that holds another name too.
C11_Witness ==
    /\ pc = "filter_by_cluster.returned"
    /\ new_cluster_name = [str |-> <<"\"", "a", "\"">>]
    /\ cluster_name = <<"A">>
    /\ Len(masked_data) = 1
    /\ Len(data) = 2

=============================================================================
